---- MODULE Spec2Model ----
(***************************************************************************)
(* Model of the conversational agent runtime of terminalcodeAssistant:     *)
(* the session loop (agent.py, CodeAssistantAgent.run), the two-node       *)
(* execution graph (model_response / tool_use with the conditional edge    *)
(* check_tool_use) and the per-thread checkpoint the compiled graph keeps  *)
(* in checkpoints.db.                                                      *)
(*                                                                         *)
(* The graph is run by LangGraph (workflow.compile(checkpointer=...) and   *)
(* agent.ainvoke(..., config)).  What the runner does with the nodes the   *)
(* source registers is modelled as documented for that library:           *)
(*   - the state of a thread is loaded from the checkpointer when ainvoke  *)
(*     is called, the input is merged into it with the channel's reducer   *)
(*     (add_messages) and that state is checkpointed;                      *)
(*   - a checkpoint is written after every super-step (node execution);    *)
(*   - before every super-step the step count is compared with the         *)
(*     recursion limit and GraphRecursionError is raised when it is        *)
(*     reached; the source passes no recursion_limit, so the library       *)
(*     default applies.                                                    *)
(***************************************************************************)
EXTENDS Integers, Sequences, FiniteSets, TLC

VARIABLES
    pc,          \* position of the process: "prompt" | "running" | "exited"
    node,        \* the graph node scheduled next in the current run
    step,        \* super-steps executed in the current run
    messages,    \* AgentState.messages of the current run
    checkpoint,  \* the state persisted in checkpoints.db for thread_id
    prepared,    \* model_response: messages after the system-message step
    llm_input,   \* model_response: the sequence handed to llm_with_tools.invoke
    last_error,  \* exception that ended the last run, "none" if none
    tools,       \* self.tools, in registration order
    mcp_tools,   \* self.mcp_tools
    next_id,     \* next fresh correlation id the model backend will use
    runs,        \* utterances handed to the graph so far
    run_base,    \* history: Len of the loaded conversation when the run began
    done_ckpt,   \* history: checkpoint at the end of the last completed run
    dirty,       \* history: a run ended without reaching END since done_ckpt
    resumed,     \* history: the process was started on an existing checkpoint
                 \*          and the current run is its first
    typed,       \* run: what Prompt.ask returned for the last line read
    user_input,  \* run: user_input after the number was resolved
    handled,     \* history: what run did with the last line read
    last_options,\* self.last_options
    response_content, \* the last text handed to _format_with_numbers
    display,     \* the last text _format_with_numbers returned
    cancelling,  \* the main task has a cancellation pending
    sys_stderr,  \* sys.stderr: "original" or the "buffer" of tool_use
    old_stderr,  \* tool_use: the stream saved before the redirection
    call_index,  \* tool_use: position of the for loop in tool_calls
    tool_msgs,   \* tool_use: the local list tool_messages
    github_token,\* os.getenv("GITHUB_TOKEN"): "set" or "missing"
    discovery,   \* history: how the discovery of the MCP tools ended
    reported,    \* the warnings printed during startup
    connection,  \* the connection of the checkpointer: "none", "open", "closed"
    releases,    \* history: calls of __aexit__ on an open connection
    exit_path    \* history: how control left initialize and run

graph_vars_but_pc ==
    <<node, step, messages, checkpoint, prepared, llm_input, last_error,
      tools, mcp_tools, next_id, runs, run_base, done_ckpt, dirty, resumed>>

graph_vars == <<pc, graph_vars_but_pc>>

loop_vars == <<typed, user_input, handled, last_options, response_content, display,
               cancelling>>

proc_vars == <<sys_stderr, old_stderr, call_index, tool_msgs, github_token,
               discovery, reported, connection, releases, exit_path>>

vars == <<graph_vars, loop_vars, proc_vars>>

(***************************************************************************)
(* Bounds of the model.                                                    *)
(***************************************************************************)
\* tool invocation requests one Assistant message may carry
MaxCalls == 2
\* tool invocation requests the model backend issues over the whole session
MaxIds == 2
\* utterances handed to the graph over the whole session
MaxRuns == 2
\* Step limit of one run.  The source configures none, so LangGraph's default
\* (25) applies; the model is parametric in it and checks a scaled-down value.
recursion_limit == 3
\* longest conversation given to model_response when it is checked on its own
MaxConv == 4

\* lines of a text handed to _format_with_numbers
MaxLines == 2

\* handles a discovery of MCP tools may return
MaxMcp == 2

END == "__end__"


(***************************************************************************)
(* Messages.  A content is the sequence of the text fragments that the     *)
(* source concatenates, so that a prefix or an embedded tool name stays    *)
(* visible.                                                                *)
(***************************************************************************)
Message(type, content, tool_calls, tool_call_id) ==
    [type |-> type, content |-> content, tool_calls |-> tool_calls,
     tool_call_id |-> tool_call_id]

SystemPrompt == "You MUST call tools. NEVER just talk. For 'push folder': call push_folder(...)"

SystemMessage == Message("system", <<SystemPrompt>>, <<>>, 0)

HumanMessage(content) == Message("human", content, <<>>, 0)

AIMessage(tool_calls) == Message("ai", <<>>, tool_calls, 0)

ToolMessage(content, tool_call_id) == Message("tool", content, <<>>, tool_call_id)

\* what the user types as a request
UserTexts == {"push to github"}

Directive == "\n\n[SYSTEM: You MUST call the appropriate tool NOW. Do not respond with text.]"

(***************************************************************************)
(* Tool registry.                                                          *)
(***************************************************************************)
Handle(name, source) == [name |-> name, source |-> source]

None == Handle("", "none")

local_tools == << Handle("read_file", "local") >>

github_tools == << Handle("quick_push_file", "github"),
                   Handle("push_folder", "github"),
                   Handle("create_github_repo", "github") >>

\* what get_mcp_tools returns: the server's tools, or [] when the token is
\* missing or the client fails
McpDiscoveries == { <<>>, << Handle("search_repositories", "mcp") >> }

\* self.tools after __init__ and initialize
Registry(mcp) == local_tools \o github_tools \o mcp

\* tool names the model backend may put in a request
RequestNames == {"push_folder", "search_repositories", "delete_database"}

\* (mutant of lookup: the generator's default is never used)
lookup_always_first(ts, name) == ts[1]

\* next((t for t in self.tools if t.name == tool_name), None)
lookup(ts, name) ==
    LET idx == {i \in 1..Len(ts) : ts[i].name = name}
    IN  IF idx = {} THEN None
        ELSE ts[CHOOSE i \in idx : \A j \in idx : i <= j]

\* tool in self.mcp_tools
IsMcp(mcp, tool) == \E i \in 1..Len(mcp) : mcp[i] = tool

\* str(result) of a tool that returns
ToolOutput(mcp, tool) ==
    IF IsMcp(mcp, tool) THEN "ainvoke: []"
    ELSE IF tool.source = "github" THEN "Error: GITHUB_TOKEN not found"
    ELSE "invoke: main.py agent.py"

\* str(e) of a tool that raises
ExceptionText == "connection reset"

\* any(word in last_msg.lower() for word in ['push','upload','github','repo'])
ActionFragments ==
    {"push to github", SystemPrompt, "Error: GITHUB_TOKEN not found",
     "push_folder", "search_repositories"}

HasActionWord(content) == \E i \in 1..Len(content) : content[i] \in ActionFragments


(***************************************************************************)
(* The graph state and its nodes.                                          *)
(***************************************************************************)
Last(s) == s[Len(s)]

IsPrefix(s, t) == Len(s) <= Len(t) /\ SubSeq(t, 1, Len(s)) = s

\* (mutant of add_messages: the update replaces the sequence)
add_messages_replace(left, right) == right

\* AgentState.messages: Annotated[Sequence[BaseMessage], add_messages].  The
\* messages the nodes and the loop return carry fresh ids, so the reducer
\* appends them.
add_messages(left, right) == left \o right

\* (mutant of ensure_system: the sequence is handed on as it is)
ensure_system_keep(msgs) == msgs

\* model_response, lines 215-222: the system message leads the sequence
ensure_system(msgs) ==
    IF Len(msgs) = 1 THEN <<SystemMessage>> \o msgs
    ELSE IF msgs[1].type = "system" THEN [msgs EXCEPT ![1] = SystemMessage]
    ELSE <<SystemMessage>> \o msgs

\* model_response, lines 227-230: the last message is rewritten to a human
\* message with the directive when its content holds an action word
steer(msgs) ==
    LET last_msg == Last(msgs).content
    IN  IF HasActionWord(last_msg)
        THEN [msgs EXCEPT ![Len(msgs)] = HumanMessage(last_msg \o <<Directive>>)]
        ELSE msgs

\* (mutant of check_tool_use: the edge never selects tool_use)
check_tool_use_never(msgs) == END

\* (mutant of check_tool_use: the edge always selects tool_use)
check_tool_use_always(msgs) == "tool_use"

\* the conditional edge after model_response
check_tool_use(msgs) ==
    IF Len(Last(msgs).tool_calls) > 0 THEN "tool_use" ELSE END

\* (mutant of tool_error: the exception text is passed on bare)
tool_error_bare(e) == <<e>>

\* error_msg = f"Tool error: {str(e)}"
tool_error(e) == <<"Tool error: ", e>>

\* error_msg = f"Tool {tool_name} not found"
tool_not_found(tool_name) == <<"Tool ", tool_name, " not found">>

\* tool_use, one iteration of the for loop: the ToolMessage appended for one
\* request; outcome says whether the handle returns ("ok") or raises ("raise")
tool_result(ts, mcp, tool_call, outcome) ==
    LET tool == lookup(ts, tool_call.name)
    IN  IF tool # None
        THEN IF outcome = "raise"
             THEN ToolMessage(tool_error(ExceptionText), tool_call.id)
             ELSE ToolMessage(<<ToolOutput(mcp, tool)>>, tool_call.id)
        ELSE ToolMessage(tool_not_found(tool_call.name), tool_call.id)

\* (mutant of tool_messages: results are collected last request first)
tool_messages_reversed(ts, mcp, tool_calls, outcomes) ==
    [i \in 1..Len(tool_calls) |->
        tool_result(ts, mcp, tool_calls[Len(tool_calls) + 1 - i],
                    outcomes[Len(tool_calls) + 1 - i])]

\* tool_use, the whole for loop: tool_messages in append order
tool_messages(ts, mcp, tool_calls, outcomes) ==
    [i \in 1..Len(tool_calls) |-> tool_result(ts, mcp, tool_calls[i], outcomes[i])]

\* the requests an Assistant message may carry: up to MaxCalls names, with the
\* correlation ids id0, id0+1, ...
Batches(id0) ==
    UNION { { [i \in 1..n |-> [name |-> f[i], id |-> id0 + i - 1]] :
                f \in [1..n -> RequestNames] } :
            n \in {k \in 0..MaxCalls : id0 + k - 1 <= MaxIds} }

\* (mutant of out_of_steps: no limit is enforced)
out_of_steps_never(s) == FALSE

\* the runner's check before every super-step
out_of_steps(s) == s >= recursion_limit

\* (mutant of put_checkpoint: nothing is written between turns)
put_checkpoint_skip(old, new) == old

\* the checkpointer the graph is compiled with stores the state after the
\* input and after every super-step
put_checkpoint(old, new) == new

\* (mutant of get_checkpoint: the thread's state is not loaded)
get_checkpoint_empty(stored) == <<>>

\* ainvoke(..., config) starts from the state stored for thread_id
get_checkpoint(stored) == stored

\* (mutant of failed_call_state: the sequence built for the model is what
\* the thread keeps)
failed_call_state_leak(stored, sent) == sent

\* model_response, line 232: invoke raises before the node returns an
\* update, and the sequence built for the model is a local list, so the
\* thread keeps the state stored before the node
failed_call_state(stored, sent) == stored

\* (mutant of on_error: the loop is left)
on_error_break == "exited"

\* run, lines 410-414: the error is printed and the while loop continues
on_error == "prompt"

\* run, lines 407-414: the except clause that takes an exception leaving
\* ainvoke, what it prints around the text of the exception, and where the
\* loop goes
handler(e) ==
    IF e = "KeyboardInterrupt"
    THEN [clause |-> "except KeyboardInterrupt",
          printed |-> <<"Goodbye!">>,
          next |-> "exited"]
    ELSE [clause |-> "except Exception",
          printed |-> <<"Error: ", "{e}", "{traceback.format_exc()}",
                        "Continuing... Type 'exit' to quit">>,
          next |-> on_error]


(***************************************************************************)
(* Text.  A str is the sequence of its characters, each a one-character    *)
(* string; "U+2022" stands for the bullet character.                       *)
(***************************************************************************)
\* the characters \s and str.strip take for white space
Whitespace == {" ", "\t", "\n", "\r"}

DigitChars == <<"0", "1", "2", "3", "4", "5", "6", "7", "8", "9">>

UpperCase == <<"A", "B", "C", "D", "E", "F", "G", "H", "I", "J", "K", "L", "M",
               "N", "O", "P", "Q", "R", "S", "T", "U", "V", "W", "X", "Y", "Z">>

LowerCase == <<"a", "b", "c", "d", "e", "f", "g", "h", "i", "j", "k", "l", "m",
               "n", "o", "p", "q", "r", "s", "t", "u", "v", "w", "x", "y", "z">>

\* str.lower
lower(s) ==
    [i \in 1..Len(s) |->
        IF \E k \in 1..26 : UpperCase[k] = s[i]
        THEN LowerCase[CHOOSE k \in 1..26 : UpperCase[k] = s[i]]
        ELSE s[i]]

\* str.strip
RECURSIVE strip(_)
strip(s) ==
    IF s = <<>> THEN s
    ELSE IF Head(s) \in Whitespace THEN strip(Tail(s))
    ELSE IF s[Len(s)] \in Whitespace THEN strip(SubSeq(s, 1, Len(s) - 1))
    ELSE s

\* str.isdigit
isdigit(s) ==
    /\ s # <<>>
    /\ \A i \in 1..Len(s) : \E d \in 1..10 : DigitChars[d] = s[i]

\* str(option_num)
RECURSIVE str(_)
str(n) ==
    IF n < 10 THEN <<DigitChars[n + 1]>>
    ELSE str(n \div 10) \o <<DigitChars[(n % 10) + 1]>>

\* sub in s
contains(s, sub) ==
    \E i \in 1..(Len(s) - Len(sub) + 1) : SubSeq(s, i, i + Len(sub) - 1) = sub

\* text.split('\n')
RECURSIVE split(_)
split(text) ==
    IF \A i \in 1..Len(text) : text[i] # "\n" THEN <<text>>
    ELSE LET i == CHOOSE j \in 1..Len(text) :
                      /\ text[j] = "\n"
                      /\ \A k \in 1..(j - 1) : text[k] # "\n"
         IN  <<SubSeq(text, 1, i - 1)>> \o split(SubSeq(text, i + 1, Len(text)))

\* '\n'.join(lines)
RECURSIVE join(_)
join(lines) ==
    IF lines = <<>> THEN <<>>
    ELSE IF Len(lines) = 1 THEN lines[1]
    ELSE lines[1] \o <<"\n">> \o join(Tail(lines))

(***************************************************************************)
(* The numbered options: _format_with_numbers and _display_quick_start.    *)
(***************************************************************************)
\* self.last_options = {}
no_options == [k \in {} |-> <<>>]

\* self.last_options[key] = value
put(options, key, value) ==
    [k \in (DOMAIN options) \cup {key} |-> IF k = key THEN value ELSE options[k]]

\* _display_quick_start: the texts of the five options shown at startup
quick_start ==
    << <<"L","i","s","t"," ","a","l","l"," ","f","i","l","e","s"," ","i","n"," ","c","u","r","r","e","n","t"," ","d","i","r","e","c","t","o","r","y">>,
       <<"S","h","o","w"," ","a","v","a","i","l","a","b","l","e"," ","t","o","o","l","s">>,
       <<"R","u","n"," ","t","h","e"," ","t","e","s","t","s">>,
       <<"R","e","a","d"," ","t","h","e"," ","R","E","A","D","M","E",".","m","d"," ","f","i","l","e">>,
       <<"S","e","a","r","c","h"," ","f","o","r"," ","c","o","d","e"," ","i","n"," ","t","h","e"," ","p","r","o","j","e","c","t">> >>

\* _display_quick_start: self.last_options = {"1": ..., ..., "5": ...}
quick_start_options ==
    [k \in {str(n) : n \in 1..Len(quick_start)} |->
        quick_start[CHOOSE n \in 1..Len(quick_start) : str(n) = k]]

\* the characters of [U+2022\-\*]
Glyphs == {"U+2022", "-", "*"}

\* the number of white space characters s begins with
leading_space(s) ==
    CHOOSE i \in 0..Len(s) :
        /\ \A k \in 1..i : s[k] \in Whitespace
        /\ (i < Len(s)) => s[i + 1] \notin Whitespace

\* (mutant of bullet_match: the leading white space is not captured)
bullet_match_no_indent(line) ==
    LET i == leading_space(line)
        rest == SubSeq(line, i + 2, Len(line))
        w == leading_space(rest)
    IN  IF i < Len(line) /\ line[i + 1] \in Glyphs /\ w >= 1 /\ Len(rest) >= 2
        THEN [matched |-> TRUE, indent |-> <<>>,
              content |-> SubSeq(rest, IF w = Len(rest) THEN w ELSE w + 1, Len(rest))]
        ELSE [matched |-> FALSE, indent |-> <<>>, content |-> <<>>]

\* re.match(r'^(\s*)[U+2022\-\*]\s+(.+)$', line): \s* takes all the leading
\* white space, one glyph follows, \s+ takes the white space after it but
\* leaves one character when nothing else remains for (.+)
bullet_match(line) ==
    LET i == leading_space(line)
        rest == SubSeq(line, i + 2, Len(line))
        w == leading_space(rest)
    IN  IF i < Len(line) /\ line[i + 1] \in Glyphs /\ w >= 1 /\ Len(rest) >= 2
        THEN [matched |-> TRUE, indent |-> SubSeq(line, 1, i),
              content |-> SubSeq(rest, IF w = Len(rest) THEN w ELSE w + 1, Len(rest))]
        ELSE [matched |-> FALSE, indent |-> <<>>, content |-> <<>>]

\* f"{indent}**{option_num}.** {content}"
numbered(indent, option_num, content) ==
    indent \o <<"*", "*">> \o str(option_num) \o <<".", "*", "*", " ">> \o content

\* the for loop of _format_with_numbers over the lines still to do
RECURSIVE number_lines(_, _, _)
number_lines(lines, option_num, acc) ==
    IF lines = <<>> THEN acc
    ELSE LET m == bullet_match(Head(lines))
         IN  IF m.matched
             THEN number_lines(Tail(lines), option_num + 1,
                    [options |-> put(acc.options, str(option_num), m.content),
                     formatted |-> Append(acc.formatted,
                                     numbered(m.indent, option_num, m.content))])
             ELSE number_lines(Tail(lines), option_num,
                    [options |-> acc.options,
                     formatted |-> Append(acc.formatted, Head(lines))])

TipHead ==
    <<"*", "T", "i", "p", ":", " ", "T", "y", "p", "e", " ", "a", " ", "n",
    "u", "m", "b", "e", "r", " ", "(", "1", "-">>

TipTail ==
    <<")", " ", "t", "o", " ", "s", "e", "l", "e", "c", "t", " ", "a", "n",
    " ", "o", "p", "t", "i", "o", "n", "*">>

\* f"\n\n*Tip: Type a number (1-{len(self.last_options)}) to select an option*"
tip(options) ==
    <<"\n", "\n">> \o TipHead \o str(Cardinality(DOMAIN options)) \o TipTail

\* (mutant of reset_options: the options of the earlier list are kept)
reset_options_keep(old) == old

\* _format_with_numbers, line 177: the map is emptied before the lines are read
reset_options(old) == no_options

\* _format_with_numbers on a str: the options it leaves in self.last_options
\* and the text it returns
format_with_numbers(text, old) ==
    LET r == number_lines(split(text), 1,
                          [options |-> reset_options(old), formatted |-> <<>>])
        result == join(r.formatted)
    IN  [options |-> r.options,
         result |-> IF r.options # no_options THEN result \o tip(r.options)
                    ELSE result]

(***************************************************************************)
(* The process: main() constructs and initializes the agent, then run()    *)
(* loops on the prompt.                                                    *)
(***************************************************************************)
\* no run is in progress: ainvoke's result is not kept, and the locals of
\* the nodes are gone
Idle ==
    /\ node' = END
    /\ step' = 0
    /\ messages' = <<>>
    /\ prepared' = <<>>
    /\ llm_input' = <<>>
    /\ run_base' = 0

\* the process as initialize leaves it: the connection of the checkpointer is
\* open and no tool is being invoked; what the startup met is not followed
Started ==
    /\ sys_stderr = "original"
    /\ old_stderr = "original"
    /\ call_index = 0
    /\ tool_msgs = <<>>
    /\ github_token = "unknown"
    /\ discovery = "unknown"
    /\ reported = {}
    /\ connection = "open"
    /\ releases = 0
    /\ exit_path = "none"

Init ==
    /\ pc = "prompt"
    /\ node = END
    /\ step = 0
    /\ messages = <<>>
    /\ checkpoint = <<>>
    /\ prepared = <<>>
    /\ llm_input = <<>>
    /\ last_error = "none"
    /\ mcp_tools \in McpDiscoveries
    /\ tools = Registry(mcp_tools)
    /\ next_id = 1
    /\ runs = 0
    /\ run_base = 0
    /\ done_ckpt = <<>>
    /\ dirty = FALSE
    /\ resumed = FALSE
    /\ typed = <<>>
    /\ user_input = <<>>
    /\ handled = "none"
    /\ last_options = quick_start_options
    /\ response_content = <<>>
    /\ display = <<>>
    /\ cancelling = FALSE
    /\ Started

\* run, lines 398-405: the utterance becomes a HumanMessage and the graph is
\* invoked on the thread's stored state
UserUtterance ==
    /\ pc = "prompt"
    /\ runs < MaxRuns
    /\ \E text \in UserTexts :
        LET loaded == get_checkpoint(checkpoint)
            state == add_messages(loaded, <<HumanMessage(<<text>>)>>)
        IN  /\ messages' = state
            /\ checkpoint' = put_checkpoint(checkpoint, state)
            /\ run_base' = Len(loaded)
    /\ pc' = "running"
    /\ node' = "model_response"
    /\ step' = 0
    /\ last_error' = "none"
    /\ runs' = runs + 1
    /\ UNCHANGED <<prepared, llm_input, tools, mcp_tools, next_id, done_ckpt,
                   dirty, resumed>>
    /\ UNCHANGED loop_vars
    /\ UNCHANGED proc_vars

\* node model_response followed by the conditional edge; a backend error is
\* not caught in the node and reaches the except clause of run
ModelTurn ==
    /\ pc = "running"
    /\ node = "model_response"
    /\ ~out_of_steps(step)
    /\ \/ /\ pc' = on_error
          /\ last_error' = "BackendError"
          /\ dirty' = TRUE
          /\ resumed' = FALSE
          /\ Idle
          /\ checkpoint' = failed_call_state(checkpoint, steer(ensure_system(messages)))
          /\ UNCHANGED next_id
       \/ \E tool_calls \in Batches(next_id) :
          /\ prepared' = ensure_system(messages)
          /\ llm_input' = steer(prepared')
          /\ messages' = add_messages(messages, <<AIMessage(tool_calls)>>)
          /\ checkpoint' = put_checkpoint(checkpoint, messages')
          /\ node' = check_tool_use(messages')
          /\ step' = step + 1
          /\ next_id' = next_id + Len(tool_calls)
          /\ UNCHANGED <<pc, last_error, dirty, resumed, run_base>>
    /\ UNCHANGED <<tools, mcp_tools, runs, done_ckpt>>
    /\ UNCHANGED loop_vars
    /\ UNCHANGED proc_vars

\* node tool_use followed by the edge tool_use -> model_response
ToolTurn ==
    /\ pc = "running"
    /\ node = "tool_use"
    /\ ~out_of_steps(step)
    /\ LET tool_calls == Last(messages).tool_calls
       IN  \E outcomes \in [1..Len(tool_calls) -> {"ok", "raise"}] :
            messages' = add_messages(messages,
                            tool_messages(tools, mcp_tools, tool_calls, outcomes))
    /\ checkpoint' = put_checkpoint(checkpoint, messages')
    /\ node' = "model_response"
    /\ step' = step + 1
    /\ UNCHANGED <<pc, prepared, llm_input, last_error, tools, mcp_tools, next_id,
                   runs, run_base, done_ckpt, dirty, resumed>>
    /\ UNCHANGED loop_vars
    /\ UNCHANGED proc_vars

\* the runner raises GraphRecursionError when a node is scheduled and the
\* limit is reached; run catches it like any other exception
StepLimit ==
    /\ pc = "running"
    /\ node # END
    /\ out_of_steps(step)
    /\ pc' = on_error
    /\ last_error' = "GraphRecursionError"
    /\ dirty' = TRUE
    /\ resumed' = FALSE
    /\ Idle
    /\ UNCHANGED <<checkpoint, tools, mcp_tools, next_id, runs, done_ckpt>>
    /\ UNCHANGED loop_vars
    /\ UNCHANGED proc_vars

\* the edge selected END: ainvoke returns and the loop prompts again
RunDone ==
    /\ pc = "running"
    /\ node = END
    /\ pc' = "prompt"
    /\ done_ckpt' = checkpoint
    /\ dirty' = FALSE
    /\ resumed' = FALSE
    /\ Idle
    /\ UNCHANGED <<checkpoint, last_error, tools, mcp_tools, next_id, runs>>
    /\ UNCHANGED loop_vars
    /\ UNCHANGED proc_vars

\* run, lines 407-409: an interrupt during the run leaves the loop, and
\* main returns
InterruptRun ==
    /\ pc = "running"
    /\ node # END
    /\ pc' = "exited"
    /\ last_error' = "KeyboardInterrupt"
    /\ dirty' = TRUE
    /\ resumed' = FALSE
    /\ Idle
    /\ UNCHANGED <<checkpoint, tools, mcp_tools, next_id, runs, done_ckpt>>
    /\ UNCHANGED loop_vars
    /\ UNCHANGED proc_vars

\* run, lines 342-344 and 350-353: exit command or end of input at the
\* prompt; main returns
ExitCommand ==
    /\ pc = "prompt"
    /\ pc' = "exited"
    /\ resumed' = FALSE
    /\ UNCHANGED <<node, step, messages, checkpoint, prepared, llm_input,
                   last_error, tools, mcp_tools, next_id, runs, run_base,
                   done_ckpt, dirty>>
    /\ UNCHANGED loop_vars
    /\ UNCHANGED proc_vars

\* main and initialize: a new process on the same checkpoints.db
ProcessStart ==
    /\ pc = "exited"
    /\ pc' = "prompt"
    /\ last_error' = "none"
    /\ mcp_tools' \in McpDiscoveries
    /\ tools' = Registry(mcp_tools')
    /\ resumed' = (checkpoint # <<>>)
    /\ UNCHANGED <<node, step, messages, checkpoint, prepared, llm_input,
                   next_id, runs, run_base, done_ckpt, dirty>>
    /\ UNCHANGED loop_vars
    /\ UNCHANGED proc_vars

Next ==
    \/ UserUtterance
    \/ ModelTurn
    \/ ToolTurn
    \/ StepLimit
    \/ RunDone
    \/ InterruptRun
    \/ ExitCommand
    \/ ProcessStart

Spec == Init /\ [][Next]_vars

\* every node the runner schedules is executed and returns, and the runner's
\* own steps are taken: ainvoke is awaited by run
FairSpec ==
    /\ Spec
    /\ WF_vars(ModelTurn)
    /\ WF_vars(ToolTurn)
    /\ WF_vars(StepLimit)
    /\ WF_vars(RunDone)


(***************************************************************************)
(* model_response on its own: the preparation of the sequence handed to    *)
(* the model, applied to every conversation of up to MaxConv messages in   *)
(* which a System message, if there is one, leads.                         *)
(***************************************************************************)
BodyMessages ==
    {HumanMessage(<<"list files">>), HumanMessage(<<"push to github">>),
     AIMessage(<<>>), ToolMessage(<<"invoke: main.py agent.py">>, 1)}

PrepInputs ==
    LET bodies == UNION {[1..n -> BodyMessages] : n \in 0..(MaxConv - 1)}
    IN  {b \in bodies : Len(b) > 0} \cup {<<SystemMessage>> \o b : b \in bodies}

PrepInit ==
    /\ pc = "entry"
    /\ messages \in PrepInputs
    /\ node = "model_response"
    /\ step = 0
    /\ checkpoint = messages
    /\ prepared = <<>>
    /\ llm_input = <<>>
    /\ last_error = "none"
    /\ mcp_tools = <<>>
    /\ tools = Registry(mcp_tools)
    /\ next_id = 1
    /\ runs = 1
    /\ run_base = 0
    /\ done_ckpt = <<>>
    /\ dirty = FALSE
    /\ resumed = FALSE
    /\ typed = <<>>
    /\ user_input = <<>>
    /\ handled = "none"
    /\ last_options = quick_start_options
    /\ response_content = <<>>
    /\ display = <<>>
    /\ cancelling = FALSE
    /\ Started

\* model_response up to the call of the model
ModelResponseEntry ==
    /\ pc = "entry"
    /\ pc' = "prepared"
    /\ prepared' = ensure_system(messages)
    /\ llm_input' = steer(prepared')
    /\ UNCHANGED <<node, step, messages, checkpoint, last_error, tools, mcp_tools,
                   next_id, runs, run_base, done_ckpt, dirty, resumed>>
    /\ UNCHANGED loop_vars
    /\ UNCHANGED proc_vars

PrepNext == ModelResponseEntry

PrepSpec == PrepInit /\ [][PrepNext]_vars

(***************************************************************************)
(* _format_with_numbers on its own, applied to every text of up to         *)
(* MaxLines lines drawn from SampleLines.                                  *)
(***************************************************************************)
SampleLines ==
    { <<"-", " ", "a">>,
      <<" ", " ", "*", " ", "p", "u", "s", "h", " ", "f", "o", "l", "d", "e", "r">>,
      <<"-", "a">>,
      <<"o", "k">>,
      <<"-", " ", " ">>,
      <<"U+2022", " ", "c">>,
      <<>>,
      <<"-", " ">>,
      <<"\t", "-", "\t", "b", " ">> }

Texts == {join(ls) : ls \in UNION {[1..n -> SampleLines] : n \in 1..MaxLines}}

RenderInit ==
    /\ pc = "render_entry"
    /\ response_content \in Texts
    /\ last_options \in {quick_start_options, no_options}
    /\ display = <<>>
    /\ typed = <<>>
    /\ user_input = <<>>
    /\ handled = "none"
    /\ cancelling = FALSE
    /\ Started
    /\ node = END
    /\ step = 0
    /\ messages = <<>>
    /\ checkpoint = <<>>
    /\ prepared = <<>>
    /\ llm_input = <<>>
    /\ last_error = "none"
    /\ mcp_tools = <<>>
    /\ tools = Registry(mcp_tools)
    /\ next_id = 1
    /\ runs = 0
    /\ run_base = 0
    /\ done_ckpt = <<>>
    /\ dirty = FALSE
    /\ resumed = FALSE

\* formatted_content = self._format_with_numbers(response.content)
FormatWithNumbers ==
    /\ pc = "render_entry"
    /\ pc' = "rendered"
    /\ LET r == format_with_numbers(response_content, last_options)
       IN  /\ last_options' = r.options
           /\ display' = r.result
    /\ UNCHANGED <<response_content, typed, user_input, handled, cancelling>>
    /\ UNCHANGED graph_vars_but_pc
    /\ UNCHANGED proc_vars

RenderNext == FormatWithNumbers

RenderSpec == RenderInit /\ [][RenderNext]_vars

(***************************************************************************)
(* The session loop with the numbered options: what run does with a line   *)
(* read at the prompt, and what model_response shows.                      *)
(***************************************************************************)
\* what the user may enter at the prompt
Entered ==
    { <<>>,
      <<" ">>,
      <<" ", "2", " ">>,
      <<"1", "a">>,
      <<"E", "x", "i", "t">>,
      <<"h", "e", "l", "p">>,
      <<"t", "o", "o", "l", "s">>,
      <<"p", "u", "s", "h", " ", "f", "o", "l", "d", "e", "r">> }

\* the contents the model may answer with; <<>> is a response without text
ResponseContents ==
    { <<>>,
      <<"o", "k">>,
      <<"U+2022", " ", "c">>,
      join(<< <<"-", " ", "a">>,
              <<" ", " ", "*", " ", "p", "u", "s", "h", " ", "f", "o", "l", "d", "e", "r">> >>) }

\* the requests a response may carry in this specification: none, or one
\* for a tool that is not registered
LoopBatches(id0) ==
    {b \in Batches(id0) : Len(b) <= 1 /\ \A i \in 1..Len(b) : b[i].name = "delete_database"}

ExitWords == { <<"e", "x", "i", "t">>, <<"q", "u", "i", "t">>, <<"q">> }

\* (mutant of resolve: a number is passed on as it was typed)
resolve_never(token, options) == token

\* run, lines 365-368: a number that is a key of the map stands for its option
resolve(token, options) ==
    IF isdigit(strip(token)) /\ strip(token) \in DOMAIN options
    THEN options[strip(token)]
    ELSE token

\* run, line 371: the test of the direct command handler
is_push_folder(text) ==
    /\ contains(lower(text), <<"p", "u", "s", "h">>)
    /\ contains(lower(text), <<"f", "o", "l", "d", "e", "r">>)

\* what SIGINT does while input() blocks inside asyncio.run(main()): the
\* runner's handler cancels the main task and returns on the first signal
\* (input() goes on waiting), and raises KeyboardInterrupt on a later one;
\* without the runner's handler KeyboardInterrupt is raised at once
sigint_outcomes(already_cancelling) ==
    IF already_cancelling THEN {"raised"} ELSE {"raised", "absorbed"}

LoopInit ==
    /\ Init
    /\ mcp_tools = <<>>

\* run, lines 337-405: one line read at the prompt, up to the call of ainvoke
ReadInput ==
    /\ pc = "prompt"
    /\ \E entered \in Entered :
        LET value == strip(entered)
            selected == resolve(value, last_options)
        IN  /\ typed' = value
            /\ IF value = <<>> \/ strip(value) = <<>>
               THEN /\ handled' = "skip"
                    /\ user_input' = value
                    /\ UNCHANGED <<pc, node, step, messages, checkpoint,
                                   last_error, runs, run_base>>
               ELSE IF lower(value) \in ExitWords
               THEN /\ handled' = "exit"
                    /\ user_input' = value
                    /\ pc' = "exited"
                    /\ UNCHANGED <<node, step, messages, checkpoint,
                                   last_error, runs, run_base>>
               ELSE IF lower(value) \in { <<"h", "e", "l", "p">>,
                                          <<"t", "o", "o", "l", "s">> }
               THEN /\ handled' = "command"
                    /\ user_input' = value
                    /\ UNCHANGED <<pc, node, step, messages, checkpoint,
                                   last_error, runs, run_base>>
               ELSE IF is_push_folder(selected)
               THEN /\ handled' = "direct"
                    /\ user_input' = selected
                    /\ UNCHANGED <<pc, node, step, messages, checkpoint,
                                   last_error, runs, run_base>>
               ELSE IF cancelling
               THEN /\ handled' = "cancelled"
                    /\ user_input' = selected
                    /\ pc' = "exited"
                    /\ last_error' = "CancelledError"
                    /\ UNCHANGED <<node, step, messages, checkpoint, runs,
                                   run_base>>
               ELSE /\ runs < MaxRuns
                    /\ handled' = "run"
                    /\ user_input' = selected
                    /\ LET loaded == get_checkpoint(checkpoint)
                           state == add_messages(loaded, <<HumanMessage(selected)>>)
                       IN  /\ messages' = state
                           /\ checkpoint' = put_checkpoint(checkpoint, state)
                           /\ run_base' = Len(loaded)
                    /\ pc' = "running"
                    /\ node' = "model_response"
                    /\ step' = 0
                    /\ last_error' = "none"
                    /\ runs' = runs + 1
    /\ UNCHANGED <<prepared, llm_input, tools, mcp_tools, next_id, done_ckpt,
                   dirty, resumed, last_options, response_content, display,
                   cancelling>>
    /\ UNCHANGED proc_vars

\* run, lines 342-344, under asyncio.run(main()): SIGINT at the prompt
PromptInterrupt ==
    /\ pc = "prompt"
    /\ handled' = "interrupt"
    /\ \E outcome \in sigint_outcomes(cancelling) :
        IF outcome = "raised"
        THEN pc' = "exited" /\ UNCHANGED cancelling
        ELSE cancelling' = TRUE /\ UNCHANGED pc
    /\ UNCHANGED <<typed, user_input, last_options, response_content, display>>
    /\ UNCHANGED graph_vars_but_pc
    /\ UNCHANGED proc_vars

\* run, lines 342-344: end of input at the prompt
EndOfInput ==
    /\ pc = "prompt"
    /\ handled' = "eof"
    /\ pc' = "exited"
    /\ UNCHANGED <<typed, user_input, last_options, response_content, display,
                   cancelling>>
    /\ UNCHANGED graph_vars_but_pc
    /\ UNCHANGED proc_vars

\* node model_response with its display (lines 234-243) and the conditional
\* edge; the text of the response is kept in response_content, not in messages
ModelTurnShown ==
    /\ pc = "running"
    /\ node = "model_response"
    /\ ~out_of_steps(step)
    /\ \E text \in ResponseContents, tool_calls \in LoopBatches(next_id) :
        /\ messages' = add_messages(messages, <<AIMessage(tool_calls)>>)
        /\ checkpoint' = put_checkpoint(checkpoint, messages')
        /\ node' = check_tool_use(messages')
        /\ step' = step + 1
        /\ next_id' = next_id + Len(tool_calls)
        /\ IF text # <<>>
           THEN LET r == format_with_numbers(text, last_options)
                IN  /\ last_options' = r.options
                    /\ display' = r.result
                    /\ response_content' = text
           ELSE UNCHANGED <<last_options, display, response_content>>
    /\ UNCHANGED <<pc, prepared, llm_input, last_error, tools, mcp_tools, runs,
                   run_base, done_ckpt, dirty, resumed, typed, user_input,
                   handled, cancelling>>
    /\ UNCHANGED proc_vars

LoopNext ==
    \/ ReadInput
    \/ PromptInterrupt
    \/ EndOfInput
    \/ ModelTurnShown
    \/ ToolTurn
    \/ StepLimit
    \/ RunDone

LoopSpec == LoopInit /\ [][LoopNext]_vars

(***************************************************************************)
(* tool_use step by step: the for loop over the requests with the          *)
(* redirection of sys.stderr around each invocation.                       *)
(***************************************************************************)
\* how an invocation ends: the handle returns, raises an Exception, or the
\* task is cancelled or interrupted inside it
InvokeOutcomes == {"ok", "raise", "cancel"}

\* (mutant of restore_stderr: the stream is put back after a return only)
restore_stderr_on_return(old, current, outcome) ==
    IF outcome = "ok" THEN old ELSE current

\* tool_use, lines 281-282: finally: sys.stderr = old_stderr
restore_stderr(old, current, outcome) == old

ToolInit ==
    /\ pc = "tool_loop"
    /\ node = "tool_use"
    /\ step = 1
    /\ mcp_tools \in McpDiscoveries
    /\ tools = Registry(mcp_tools)
    /\ \E tool_calls \in {b \in Batches(1) : Len(b) >= 1} :
        /\ messages = <<HumanMessage(<<"push to github">>), AIMessage(tool_calls)>>
        /\ next_id = 1 + Len(tool_calls)
    /\ checkpoint = messages
    /\ prepared = <<>>
    /\ llm_input = <<>>
    /\ last_error = "none"
    /\ runs = 1
    /\ run_base = 0
    /\ done_ckpt = <<>>
    /\ dirty = FALSE
    /\ resumed = FALSE
    /\ typed = <<>>
    /\ user_input = <<>>
    /\ handled = "run"
    /\ last_options = quick_start_options
    /\ response_content = <<>>
    /\ display = <<>>
    /\ cancelling = FALSE
    /\ sys_stderr = "original"
    /\ old_stderr = "original"
    /\ call_index = 1
    /\ tool_msgs = <<>>
    /\ github_token = "unknown"
    /\ discovery = "unknown"
    /\ reported = {}
    /\ connection = "open"
    /\ releases = 0
    /\ exit_path = "none"

ToolFrame ==
    UNCHANGED <<node, prepared, llm_input, tools, mcp_tools, runs, run_base,
                done_ckpt, dirty, resumed, loop_vars, github_token, discovery,
                reported, connection, releases, exit_path>>

\* tool_use, lines 258-273 and 307-316: the next request is looked up; a
\* registered handle is about to be invoked with sys.stderr redirected, an
\* unknown name is answered at once
BeginCall ==
    /\ pc = "tool_loop"
    /\ call_index <= Len(Last(messages).tool_calls)
    /\ LET tool_call == Last(messages).tool_calls[call_index]
       IN  IF lookup(tools, tool_call.name) # None
           THEN /\ old_stderr' = sys_stderr
                /\ sys_stderr' = "buffer"
                /\ pc' = "invoking"
                /\ UNCHANGED <<call_index, tool_msgs>>
           ELSE /\ tool_msgs' = Append(tool_msgs,
                                  tool_result(tools, mcp_tools, tool_call, "ok"))
                /\ call_index' = call_index + 1
                /\ UNCHANGED <<pc, sys_stderr, old_stderr>>
    /\ UNCHANGED <<step, messages, checkpoint, last_error, next_id>>
    /\ ToolFrame

\* tool_use, lines 275-306: the invocation ends, the finally clause puts the
\* stream back, and the result or the error becomes a ToolMessage; a
\* cancellation passes except Exception and leaves the node
EndCall ==
    /\ pc = "invoking"
    /\ \E outcome \in InvokeOutcomes :
        /\ sys_stderr' = restore_stderr(old_stderr, sys_stderr, outcome)
        /\ IF outcome = "cancel"
           THEN /\ pc' = "tool_aborted"
                /\ last_error' = "CancelledError"
                /\ UNCHANGED <<call_index, tool_msgs>>
           ELSE /\ pc' = "tool_loop"
                /\ tool_msgs' = Append(tool_msgs,
                                  tool_result(tools, mcp_tools,
                                      Last(messages).tool_calls[call_index], outcome))
                /\ call_index' = call_index + 1
                /\ UNCHANGED last_error
    /\ UNCHANGED <<step, messages, checkpoint, old_stderr, next_id>>
    /\ ToolFrame

\* tool_use, line 318: the node returns its messages and the reducer
\* appends them
ReturnMessages ==
    /\ pc = "tool_loop"
    /\ call_index > Len(Last(messages).tool_calls)
    /\ messages' = add_messages(messages, tool_msgs)
    /\ checkpoint' = put_checkpoint(checkpoint, messages')
    /\ step' = step + 1
    /\ pc' = "tool_returned"
    /\ UNCHANGED <<sys_stderr, old_stderr, call_index, tool_msgs, last_error,
                   next_id>>
    /\ ToolFrame

\* model_response answers with further requests and the edge selects
\* tool_use again
NextRequests ==
    /\ pc = "tool_returned"
    /\ \E tool_calls \in {b \in Batches(next_id) : Len(b) >= 1} :
        /\ messages' = add_messages(messages, <<AIMessage(tool_calls)>>)
        /\ next_id' = next_id + Len(tool_calls)
    /\ checkpoint' = put_checkpoint(checkpoint, messages')
    /\ step' = step + 1
    /\ pc' = "tool_loop"
    /\ call_index' = 1
    /\ tool_msgs' = <<>>
    /\ UNCHANGED <<sys_stderr, old_stderr, last_error>>
    /\ ToolFrame

ToolNext ==
    \/ BeginCall
    \/ EndCall
    \/ ReturnMessages
    \/ NextRequests

ToolSpec == ToolInit /\ [][ToolNext]_vars

(***************************************************************************)
(* The process entry point: main() with initialize, run as a whole, and    *)
(* cleanup.                                                                *)
(***************************************************************************)
\* the handles the GitHub MCP server may offer; push_folder has the name of
\* a handle of github_tools
McpHandles ==
    {Handle("search_repositories", "mcp"), Handle("create_issue", "mcp"),
     Handle("push_folder", "mcp")}

\* the lists client.get_tools() may return: up to MaxMcp different handles
Discovered ==
    {d \in UNION {[1..n -> McpHandles] : n \in 0..MaxMcp} :
        \A i, j \in 1..Len(d) : d[i] = d[j] => i = j}

\* how the discovery may go once the token is there: the tools are loaded,
\* npx cannot be launched, or the handshake with the server fails
DiscoveryOutcomes == {"ok", "launch_failure", "handshake_failure"}

\* (mutant of warning: a failed discovery prints nothing)
warning_silent(kind) == {}

\* get_mcp_tools, lines 39-41 and 66-68: what is printed when the discovery
\* does not deliver tools
warning(kind) ==
    IF kind = "no_token" THEN {"Warning: GITHUB_TOKEN not found"}
    ELSE IF kind = "ok" THEN {}
    ELSE {"Warning: Could not load MCP tools"}

\* get_mcp_tools: the list returned and the way the discovery ended
get_mcp_tools(token, outcome, found) ==
    IF token = "missing" THEN [tools |-> <<>>, kind |-> "no_token"]
    ELSE IF outcome = "ok" THEN [tools |-> found, kind |-> "ok"]
    ELSE [tools |-> <<>>, kind |-> outcome]

\* self.tools.extend(...)
extend(ts, more) == ts \o more

\* how control may leave run: it returns (exit command, end of input, an
\* interrupt caught in run), the cancellation of the main task passes its
\* except clauses, or KeyboardInterrupt is raised outside its try
RunExits == {"returned", "cancelled", "interrupt"}

\* (mutant of runs_cleanup: cleanup is called after a normal return only)
runs_cleanup_on_return(path) == path = "returned"

\* main, lines 45-47: cleanup is in the finally clause
runs_cleanup(path) == TRUE

ProcInit ==
    /\ pc = "main"
    /\ github_token \in {"set", "missing"}
    /\ tools = extend(local_tools, github_tools)
    /\ mcp_tools = <<>>
    /\ discovery = "none"
    /\ reported = {}
    /\ connection = "none"
    /\ releases = 0
    /\ exit_path = "none"
    /\ sys_stderr = "original"
    /\ old_stderr = "original"
    /\ call_index = 0
    /\ tool_msgs = <<>>
    /\ node = END
    /\ step = 0
    /\ messages = <<>>
    /\ checkpoint = <<>>
    /\ prepared = <<>>
    /\ llm_input = <<>>
    /\ last_error = "none"
    /\ next_id = 1
    /\ runs = 0
    /\ run_base = 0
    /\ done_ckpt = <<>>
    /\ dirty = FALSE
    /\ resumed = FALSE
    /\ typed = <<>>
    /\ user_input = <<>>
    /\ handled = "none"
    /\ last_options = no_options
    /\ response_content = <<>>
    /\ display = <<>>
    /\ cancelling = FALSE

ProcFrame ==
    UNCHANGED <<node, step, messages, checkpoint, prepared, llm_input,
                last_error, next_id, runs, run_base, done_ckpt, dirty, resumed,
                typed, user_input, handled, response_content, display,
                cancelling, sys_stderr, old_stderr, call_index, tool_msgs,
                github_token>>

\* initialize, lines 119-124: the checkpointer's connection is opened, or
\* opening it raises and main's except clause is reached
Acquire ==
    /\ pc = "main"
    /\ \E outcome \in {"ok", "raise"} :
        IF outcome = "ok"
        THEN /\ connection' = "open"
             /\ pc' = "acquired"
             /\ UNCHANGED exit_path
        ELSE /\ pc' = "left"
             /\ exit_path' = "init_error"
             /\ UNCHANGED connection
    /\ UNCHANGED <<tools, mcp_tools, discovery, reported, releases, last_options>>
    /\ ProcFrame

\* initialize, lines 126-133, with get_mcp_tools: the discovery of the MCP
\* tools; an interrupt during it leaves initialize
LoadMcpTools ==
    /\ pc = "acquired"
    /\ \/ \E outcome \in DiscoveryOutcomes, found \in Discovered :
            LET r == get_mcp_tools(github_token, outcome, found)
            IN  /\ mcp_tools' = r.tools
                /\ tools' = IF r.tools # <<>> THEN extend(tools, r.tools) ELSE tools
                /\ discovery' = r.kind
                /\ reported' = reported \cup warning(r.kind)
                /\ pc' = "loaded"
                /\ UNCHANGED exit_path
       \/ /\ pc' = "left"
          /\ exit_path' = "interrupt"
          /\ UNCHANGED <<tools, mcp_tools, discovery, reported>>
    /\ UNCHANGED <<connection, releases, last_options>>
    /\ ProcFrame

\* initialize, lines 135-145: bind_tools, compile and the quick-start list;
\* an exception of bind_tools or compile reaches main's except clause
BindAndCompile ==
    /\ pc = "loaded"
    /\ \E outcome \in {"ok", "raise"} :
        IF outcome = "ok"
        THEN /\ pc' = "prompt"
             /\ last_options' = quick_start_options
             /\ UNCHANGED exit_path
        ELSE /\ pc' = "left"
             /\ exit_path' = "init_error"
             /\ UNCHANGED last_options
    /\ UNCHANGED <<tools, mcp_tools, discovery, reported, connection, releases>>
    /\ ProcFrame

\* run as a whole: control leaves the session loop
RunLeaves ==
    /\ pc = "prompt"
    /\ \E path \in RunExits : exit_path' = path
    /\ pc' = "left"
    /\ UNCHANGED <<tools, mcp_tools, discovery, reported, connection, releases,
                   last_options>>
    /\ ProcFrame

\* main, lines 39-47, and cleanup: the except clauses print, the finally
\* clause calls cleanup, which calls __aexit__ and passes over an Exception
\* raised by it
Cleanup ==
    /\ pc = "left"
    /\ IF runs_cleanup(exit_path) /\ connection = "open"
       THEN /\ releases' = releases + 1
            /\ \E outcome \in {"ok", "raise"} :
                 connection' = IF outcome = "ok" THEN "closed" ELSE "broken"
       ELSE UNCHANGED <<releases, connection>>
    /\ pc' = "terminated"
    /\ UNCHANGED <<tools, mcp_tools, discovery, reported, exit_path, last_options>>
    /\ ProcFrame

ProcNext ==
    \/ Acquire
    \/ LoadMcpTools
    \/ BindAndCompile
    \/ RunLeaves
    \/ Cleanup

ProcSpec == ProcInit /\ [][ProcNext]_vars

(***************************************************************************)
(* Properties.                                                             *)
(***************************************************************************)
SystemCount(msgs) == Cardinality({i \in 1..Len(msgs) : msgs[i].type = "system"})

NotRegistered(name) == \A i \in 1..Len(tools) : tools[i].name # name

\* a step taken by node tool_use: the node is scheduled, the limit is not
\* reached and the process is not interrupted
ToolTurnStep ==
    /\ pc = "running"
    /\ node = "tool_use"
    /\ step < recursion_limit
    /\ pc' # "exited"

\* C1: a run starts in model_response; after model_response the next node is
\* tool_use exactly when the Assistant message just appended carries a tool
\* call, and END otherwise; after tool_use the next node is model_response;
\* nothing is scheduled after END.
RoutingRule ==
    [][ /\ (pc # "running" /\ pc' = "running") => node' = "model_response"
        /\ (pc = "running" /\ pc' = "running" /\ node = "model_response") =>
              /\ Last(messages').type = "ai"
              /\ (Len(Last(messages').tool_calls) > 0 => node' = "tool_use")
              /\ (Len(Last(messages').tool_calls) = 0 => node' = END)
        /\ (pc = "running" /\ pc' = "running" /\ node = "tool_use") =>
              node' = "model_response"
        /\ (pc = "running" /\ node = END) => pc' # "running"
      ]_vars

\* C1 witness: a run that went model_response, tool_use, model_response, END
RoutingWitness ==
    /\ pc = "running"
    /\ node = END
    /\ step = 3

\* C2: when a run reaches END, every tool call of every Assistant message of
\* that run has a later ToolMessage with its id in the conversation.
DoneImpliesAnswered ==
    (pc = "running" /\ node = END) =>
        \A k \in (run_base + 1)..Len(messages) :
            \A c \in 1..Len(messages[k].tool_calls) :
                \E j \in (k + 1)..Len(messages) :
                    /\ messages[j].type = "tool"
                    /\ messages[j].tool_call_id = messages[k].tool_calls[c].id

\* C2 witness: a run at END whose Assistant message issued two requests, one
\* of them for an unregistered tool
DoneAnsweredWitness ==
    /\ pc = "running"
    /\ node = END
    /\ \E k \in (run_base + 1)..Len(messages) :
        /\ Len(messages[k].tool_calls) = 2
        /\ \E c \in 1..2 : NotRegistered(messages[k].tool_calls[c].name)

\* C3: a tool_use step appends one ToolMessage per tool call of the last
\* Assistant message, the i-th carrying the id of the i-th call, after the
\* messages that were there.
ResultsInRequestOrder ==
    [][ ToolTurnStep =>
          LET tool_calls == Last(messages).tool_calls
              base == Len(messages)
          IN  /\ Len(messages') = base + Len(tool_calls)
              /\ SubSeq(messages', 1, base) = messages
              /\ \A i \in 1..Len(tool_calls) :
                    /\ messages'[base + i].type = "tool"
                    /\ messages'[base + i].tool_call_id = tool_calls[i].id
      ]_vars

\* C3 witness: after a tool_use step on a batch of an asynchronous handle
\* followed by a synchronous one
ResultsInRequestOrderWitness ==
    /\ pc = "running"
    /\ node = "model_response"
    /\ Len(messages) >= 3
    /\ LET ai == messages[Len(messages) - 2]
       IN  /\ ai.type = "ai"
           /\ Len(ai.tool_calls) = 2
           /\ IsMcp(mcp_tools, lookup(tools, ai.tool_calls[1].name))
           /\ lookup(tools, ai.tool_calls[2].name).source = "github"
           /\ messages[Len(messages) - 1].tool_call_id = ai.tool_calls[1].id
           /\ Last(messages).tool_call_id = ai.tool_calls[2].id

\* C4: a run never executes more than recursion_limit steps, a run that is
\* stopped at the limit ends with GraphRecursionError, and every run ends.
RunTerminates ==
    /\ [](step <= recursion_limit)
    /\ [][ (pc = "running" /\ node # END /\ step >= recursion_limit
            /\ pc' = "prompt") => last_error' = "GraphRecursionError" ]_vars
    /\ (pc = "running") ~> (pc # "running")

\* C4 witness: a run was stopped at the limit
StepLimitWitness ==
    /\ pc = "prompt"
    /\ last_error = "GraphRecursionError"

UnknownToolAnswered ==
    [][ ToolTurnStep =>
          LET tool_calls == Last(messages).tool_calls
              base == Len(messages)
          IN  /\ Len(messages') = base + Len(tool_calls)
              /\ \A i \in 1..Len(tool_calls) :
                    NotRegistered(tool_calls[i].name) =>
                        messages'[base + i] =
                            ToolMessage(<<"Tool ", tool_calls[i].name, " not found">>,
                                        tool_calls[i].id)
              /\ pc' = "running"
              /\ node' = "model_response"
              /\ last_error' = "none"
      ]_vars

\* C6 witness: a not-found result, then the result of the next call of the
\* batch, then the Assistant message of the next model_response
UnknownToolWitness ==
    /\ pc = "running"
    /\ Len(messages) >= 4
    /\ Last(messages).type = "ai"
    /\ messages[Len(messages) - 1].type = "tool"
    /\ messages[Len(messages) - 1].content # tool_not_found("delete_database")
    /\ messages[Len(messages) - 2].content = tool_not_found("delete_database")
    /\ messages[Len(messages) - 3].type = "ai"

CheckpointOnlyAtDone ==
    (pc = "running" /\ node # END /\ step >= 1) => checkpoint = done_ckpt

\* C8 as amended: the checkpoint is written with the input and after every
\* turn, so during a run the persisted conversation is the run's current one,
\* and it always extends the one persisted at the end of the last completed
\* run.
CheckpointEveryTurn ==
    /\ (pc = "running") => checkpoint = messages
    /\ IsPrefix(done_ckpt, checkpoint)

\* C8 witness: a second run is between turns and its messages are persisted
CheckpointEveryTurnWitness ==
    /\ pc = "running"
    /\ node = "tool_use"
    /\ done_ckpt # <<>>
    /\ Len(checkpoint) > Len(done_ckpt) + 1

\* C9 as stated: the conversation the first run of a restarted process starts
\* from is the one persisted at the end of the last completed run.
ResumeEqualsLastCompleted ==
    (pc = "prompt" /\ resumed /\ done_ckpt # <<>>) =>
        get_checkpoint(checkpoint) = done_ckpt

\* C9 as amended: the conversation the first run of a restarted process starts
\* from is the latest persisted one: it extends the one persisted at the end
\* of the last completed run, and equals it when no run was aborted or
\* interrupted since.
ResumeFromLatestCheckpoint ==
    /\ (pc = "prompt" /\ resumed) =>
          /\ get_checkpoint(checkpoint) = checkpoint
          /\ IsPrefix(done_ckpt, get_checkpoint(checkpoint))
          /\ (~dirty => get_checkpoint(checkpoint) = done_ckpt)
    /\ (pc = "running" /\ resumed) =>
          /\ run_base <= Len(messages)
          /\ IsPrefix(done_ckpt, SubSeq(messages, 1, run_base))
          /\ (~dirty => SubSeq(messages, 1, run_base) = done_ckpt)

\* C9 witness: the first run after a restart started from the conversation of
\* the completed run before it
ResumeWitness ==
    /\ pc = "running"
    /\ resumed
    /\ ~dirty
    /\ Len(done_ckpt) >= 2
    /\ SubSeq(messages, 1, run_base) = done_ckpt
    /\ Len(messages) > run_base

\* C10: when a run ends with a backend error or with the step-limit error, the
\* loop is at the prompt again and the process has not exited.
LoopSurvivesError ==
    [][ (pc = "running" /\ last_error' \in {"BackendError", "GraphRecursionError"})
            => pc' = "prompt" ]_vars

\* C10 witness: an utterance is being run in the process in which the run
\* before it failed
LoopSurvivesWitness ==
    /\ pc = "running"
    /\ runs = 2
    /\ dirty
    /\ ~resumed
    /\ step >= 1


(***************************************************************************)
(* The bullet pattern stated on its own, for the properties of the         *)
(* numbered options.                                                       *)
(***************************************************************************)
\* the pairs <<i, j>> with which line matches: i characters of white space,
\* a glyph, white space up to position j, and a content of at least one
\* character after it
Splits(line) ==
    {p \in (0..Len(line)) \X (0..Len(line)) :
        /\ \A k \in 1..p[1] : line[k] \in Whitespace
        /\ p[1] + 1 <= Len(line)
        /\ line[p[1] + 1] \in Glyphs
        /\ p[2] >= p[1] + 2
        /\ p[2] < Len(line)
        /\ \A k \in (p[1] + 2)..p[2] : line[k] \in Whitespace}

IsBullet(line) == Splits(line) # {}

\* the match the pattern makes: the white space after the glyph is greedy
BulletSplit(line) ==
    CHOOSE p \in Splits(line) : \A q \in Splits(line) : q[2] <= p[2]

BulletIndent(line) == SubSeq(line, 1, BulletSplit(line)[1])

BulletContent(line) == SubSeq(line, BulletSplit(line)[2] + 1, Len(line))

BulletLines(lines) == {i \in 1..Len(lines) : IsBullet(lines[i])}

\* the number of the bullet on line i: its rank among the bullet lines
BulletNumber(lines, i) == Cardinality({j \in BulletLines(lines) : j <= i})

AllDecimalDigits(s) ==
    /\ s # <<>>
    /\ \A i \in 1..Len(s) :
          s[i] \in {"0", "1", "2", "3", "4", "5", "6", "7", "8", "9"}

\* the option map of a text: "1".."n" to the contents of its bullet lines
OptionsOf(text) ==
    LET lines == split(text)
        n == Cardinality(BulletLines(lines))
    IN  [k \in {str(r) : r \in 1..n} |->
            BulletContent(lines[CHOOSE i \in BulletLines(lines) :
                                    str(BulletNumber(lines, i)) = k])]

\* C11: for every text, _format_with_numbers leaves a map with the keys
\* "1".."n" for the n bullet lines, numbered in document order, each mapped to
\* the content of its line; a bullet line is rewritten to its indent, its
\* number between ** and .** and its content, any other line is returned as
\* it is, and the tip is appended exactly when there is a bullet line.
RenderContract ==
    (pc = "rendered") =>
        LET lines == split(response_content)
            bullets == BulletLines(lines)
            n == Cardinality(bullets)
            out == split(display)
        IN  /\ DOMAIN last_options = {str(k) : k \in 1..n}
            /\ Len(out) = Len(lines) + (IF n > 0 THEN 2 ELSE 0)
            /\ \A i \in bullets :
                  LET k == BulletNumber(lines, i)
                  IN  /\ last_options[str(k)] = BulletContent(lines[i])
                      /\ out[i] = BulletIndent(lines[i]) \o <<"*", "*">> \o str(k)
                                    \o <<".", "*", "*", " ">>
                                    \o BulletContent(lines[i])
            /\ \A i \in (1..Len(lines)) \ bullets : out[i] = lines[i]
            /\ (n > 0) =>
                  /\ out[Len(lines) + 1] = <<>>
                  /\ out[Len(lines) + 2] = TipHead \o str(n) \o TipTail
            /\ (n = 0) => display = response_content

\* C11 witness: a text of two bullet lines, the first with white space for
\* content, the second indented
RenderWitness ==
    /\ pc = "rendered"
    /\ DOMAIN last_options = {<<"1">>, <<"2">>}
    /\ last_options[<<"1">>] = <<" ">>
    /\ last_options[<<"2">>] = <<"p", "u", "s", "h", " ", "f", "o", "l", "d", "e", "r">>
    /\ split(display)[2][1] = " "

\* C12: a line read at the prompt is replaced by the text of an option
\* exactly when it consists of decimal digits and is a key of the option map;
\* otherwise it is passed on as it was read, and the Human message of the
\* run carries that text.
ResolveRule ==
    [][ (/\ pc = "prompt"
         /\ handled' \in {"run", "direct", "cancelled"}
         /\ <<typed, user_input, handled, pc>>' # <<typed, user_input, handled, pc>>)
        =>
        /\ user_input' = IF AllDecimalDigits(typed') /\ typed' \in DOMAIN last_options
                         THEN last_options[typed']
                         ELSE typed'
        /\ (handled' = "run") => Last(messages') = HumanMessage(user_input')
      ]_vars

\* C12 witness: "2" was read with the quick-start list shown and the run was
\* started on the text of its second option
ResolveWitness ==
    /\ pc = "running"
    /\ step = 0
    /\ typed = <<"2">>
    /\ user_input = quick_start[2]
    /\ Last(messages) = HumanMessage(quick_start[2])

\* C13: the option map of the session is the map of the text rendered last,
\* or the quick-start map when none was rendered yet; a number that is not a
\* key of that map is passed on as it was typed.
MapIsLatest ==
    LET latest == IF response_content = <<>> THEN quick_start_options
                  ELSE OptionsOf(response_content)
    IN  /\ last_options = latest
        /\ (/\ pc = "running"
            /\ step = 0
            /\ AllDecimalDigits(typed)
            /\ typed \notin DOMAIN latest) => user_input = typed

\* C13 witness: "2", a key of the quick-start map, is read after a list of
\* one option was rendered and starts a run as the text "2"
StaleNumberWitness ==
    /\ pc = "running"
    /\ step = 0
    /\ typed = <<"2">>
    /\ user_input = <<"2">>
    /\ last_options # no_options
    /\ runs = 2

\* C14: a line accepted as an utterance is appended to the conversation as a
\* Human message and starts a run; none is handled by invoking a tool from
\* the loop.
UtteranceDrivesRun ==
    (handled \in {"run", "direct"}) =>
        /\ handled = "run"
        /\ runs >= 1
        /\ \E i \in 1..Len(checkpoint) : checkpoint[i] = HumanMessage(user_input)

\* C15: after an interrupt at the prompt the loop is left, as it is after
\* the exit command.
PromptInterruptExits ==
    (handled = "interrupt") => pc = "exited"

\* C16 as stated: once the first model_response of a run has run, the first
\* message of the conversation state is the System message.
SystemLeadsConversation ==
    (pc = "running" /\ step >= 1) => messages[1].type = "system"

\* C16 as amended: the System message leads the sequence handed to the model,
\* which holds exactly one, and it is never part of the conversation state or
\* of the checkpoint, whose first message is the first Human message.
SystemLeadsModelInput ==
    /\ SystemCount(messages) = 0
    /\ SystemCount(checkpoint) = 0
    /\ (llm_input # <<>>) =>
          /\ llm_input[1] = SystemMessage
          /\ SystemCount(llm_input) = 1
    /\ (pc = "running") => messages[1].type = "human"

\* C16 witness: the second model_response of a run was handed the System
\* message followed by the run's messages
SystemLeadsWitness ==
    /\ pc = "running"
    /\ step = 3
    /\ Len(llm_input) >= 4
    /\ llm_input[1] = SystemMessage
    /\ llm_input[2] = messages[1]

\* C17: when model_response runs after tool_use, the sequence handed to the
\* model ends with the ToolMessage the conversation ended with.
SteeringOnlyHuman ==
    (/\ pc = "running"
     /\ Len(messages) >= 2
     /\ Last(messages).type = "ai"
     /\ messages[Len(messages) - 1].type = "tool")
        => Last(llm_input) = messages[Len(messages) - 1]

\* C18: while a run is running every step extends the conversation state:
\* model_response by exactly one Assistant message, tool_use by exactly one
\* ToolMessage per tool call of the last Assistant message; the checkpoint is
\* extended the same way.
ConversationAppendOnly ==
    [][ (pc = "running" /\ pc' = "running") =>
          /\ IsPrefix(messages, messages')
          /\ IsPrefix(checkpoint, checkpoint')
          /\ (node = "model_response") =>
                /\ Len(messages') = Len(messages) + 1
                /\ Last(messages').type = "ai"
          /\ (node = "tool_use") =>
                /\ Len(messages') = Len(messages) + Len(Last(messages).tool_calls)
                /\ \A i \in (Len(messages) + 1)..Len(messages') :
                      messages'[i].type = "tool"
      ]_vars

\* C18 witness: a run whose state grew by a Human message, an Assistant
\* message with two tool calls and their two results
AppendOnlyWitness ==
    /\ pc = "running"
    /\ node = "model_response"
    /\ step = 2
    /\ Len(messages) = run_base + 4

\* C19: a backend error in model_response leaves the persisted conversation
\* as it was, which is the conversation the node was entered with, and the
\* loop is at the prompt again.
BackendErrorKeepsConversation ==
    [][ (pc = "running" /\ last_error' = "BackendError") =>
          /\ checkpoint' = checkpoint
          /\ checkpoint' = messages
          /\ pc' = "prompt"
      ]_vars

\* C19 witness: the model call failed in a model_response that followed a
\* tool_use
BackendErrorWitness ==
    /\ pc = "prompt"
    /\ last_error = "BackendError"
    /\ Len(checkpoint) >= 3
    /\ Last(checkpoint).type = "tool"

\* C20: when the step limit stops a run, the persisted conversation is the
\* run's conversation at that point, with the messages of every turn the run
\* completed.
StepLimitKeepsConversation ==
    [][ (pc = "running" /\ last_error' = "GraphRecursionError") =>
          /\ checkpoint' = messages
          /\ Len(checkpoint') >= run_base + 1 + step
          /\ step = recursion_limit
      ]_vars

\* C20 witness: a run was stopped at the limit and its turns are persisted
StepLimitKeepsWitness ==
    /\ pc = "prompt"
    /\ last_error = "GraphRecursionError"
    /\ Len(checkpoint) >= 1 + recursion_limit
    /\ \E i \in 1..Len(checkpoint) : checkpoint[i].type = "tool"

StderrScoped ==
    /\ (pc = "invoking") => (sys_stderr = "buffer" /\ old_stderr = "original")
    /\ (pc # "invoking") => sys_stderr = "original"

\* C22 witness: a second tool turn has returned after an invocation that
\* raised, and the stream is the original one
StderrRestoredWitness ==
    /\ pc = "tool_returned"
    /\ step = 4
    /\ sys_stderr = "original"
    /\ \E i \in 1..Len(messages) :
          /\ messages[i].type = "tool"
          /\ messages[i].content = tool_error(ExceptionText)

\* C23: when the discovery of the MCP tools fails (no token, launch failure,
\* handshake failure), initialize goes on: the registry holds the local and
\* the GitHub handles and no MCP handle, a warning is printed, and the
\* session loop is reached unless binding or compiling fails.
DiscoveryFailureTolerated ==
    /\ [][ (pc = "acquired" /\ discovery' \notin {"none", "ok"}) =>
            /\ pc' = "loaded"
            /\ mcp_tools' = <<>>
            /\ tools' = local_tools \o github_tools
            /\ reported' # {}
         ]_vars
    /\ [](( discovery \notin {"none", "ok", "unknown"} /\ pc = "prompt") =>
            /\ \A i \in 1..Len(tools) : tools[i].source # "mcp"
            /\ Len(tools) = Len(local_tools) + Len(github_tools)
            /\ reported # {})

\* C23 witness: the session loop is entered after a launch failure
DiscoveryFailureWitness ==
    /\ pc = "prompt"
    /\ discovery = "launch_failure"
    /\ github_token = "set"
    /\ mcp_tools = <<>>
    /\ last_options = quick_start_options

\* C24: when the session loop is entered no two handles of the registry have
\* the same name, or the collision was reported.
ToolNamesUnique ==
    (pc = "prompt") =>
        \/ \A i, j \in 1..Len(tools) : tools[i].name = tools[j].name => i = j
        \/ \E w \in reported : w = "DuplicateToolError"

\* C25: when main has ended and the connection of the checkpointer had been
\* opened, __aexit__ was called on it exactly once, whichever way control
\* left initialize and run, and a failure of the release did not change the
\* way main ended; a connection is not released before control has left.
ReleasedExactlyOnce ==
    /\ (pc = "terminated" /\ connection # "none") =>
            /\ releases = 1
            /\ connection \in {"closed", "broken"}
    /\ (pc = "terminated" /\ connection = "none") => releases = 0
    /\ (pc \notin {"terminated"}) => releases = 0
    /\ releases <= 1

\* C25 witness: the main task was cancelled in run and the release failed
ReleasedOnceWitness ==
    /\ pc = "terminated"
    /\ exit_path = "cancelled"
    /\ connection = "broken"
    /\ releases = 1

\* C26: a line handled without a run (empty, white space only, help, tools)
\* leaves the conversation, the checkpoint and the option map as they were,
\* and a number that selects an option is never carried out as a command:
\* its option text starts a run as the utterance.
NumberNeverCommand ==
    [][ (/\ pc = "prompt"
         /\ handled' \notin {"interrupt", "eof"}
         /\ <<typed, user_input, handled, pc>>' # <<typed, user_input, handled, pc>>)
        =>
        /\ (handled' \in {"skip", "command"}) =>
              UNCHANGED <<messages, checkpoint, last_options>>
        /\ (AllDecimalDigits(typed') /\ typed' \in DOMAIN last_options) =>
              /\ user_input' = last_options[typed']
              /\ handled' \in {"run", "cancelled"}
      ]_vars

====
